---- MODULE Spec2Model ----
(***************************************************************************)
(* Export/reconcile engine of cosmos-isolation-utils: the dump of          *)
(* containers into one envelope file (core/dump.py), the replay of an      *)
(* envelope into containers (core/upload.py) and the batch writer          *)
(* (core/cosmos_client.py, core/base_executor.py).  The document store,    *)
(* the file system and the confirmation prompt are the environment: every  *)
(* call on them answers nondeterministically, and every mutating or        *)
(* creating call is recorded in the history variable calls.                *)
(***************************************************************************)
EXTENDS Integers, Sequences, FiniteSets, TLC

\* ------------------------------------------------------------------ bounds

\* Largest number of documents held by one container or one record.
MaxItems == 2

\* Longest explicit container selection of a dump (dump --containers a,b).
MaxSel == 2

\* Containers a database of the account holds at most.
MaxDbContainers == 2

\* ---------------------------------------------------------------- documents

\* The store-internal bookkeeping keys.
internal_attributes == {"_rid", "_self", "_etag", "_attachments", "_ts"}

\* Keys of user data; "_custom" is user data although it starts with "_".
UserKeys == {"id", "type", "_custom"}

\* The internal keys carried by the i-th document of a container: the store
\* returns all five for most documents, the patterns vary the subset.
KeyPatterns ==
    << internal_attributes, {"_ts"}, {}, {"_rid", "_etag"},
       {"_self", "_attachments", "_ts"} >>

Range(s) == { s[i] : i \in DOMAIN s }

RECURSIVE SumSeq(_)
SumSeq(s) == IF s = <<>> THEN 0 ELSE Head(s) + SumSeq(Tail(s))

\* The containers of the source database, in the order the store lists them.
SrcContainers == <<"a", "b", "c">>

CIndex(c) == CHOOSE i \in DOMAIN SrcContainers : SrcContainers[i] = c

\* The i-th document the store holds in container c, as a query returns it.
StoreDoc(c, i) ==
    LET pat  == KeyPatterns[((CIndex(c) + i) % Len(KeyPatterns)) + 1]
        keys == pat \cup (IF i % 2 = 0 THEN UserKeys ELSE {"id", "type"})
    IN  [k \in keys |-> IF k = "id" THEN i
                        ELSE IF k = "type" THEN CIndex(c)
                        ELSE IF k = "_custom" THEN 7
                        ELSE 100 + i]

\* A filter that drops every key starting with an underscore.
FilterUnderscoreKeys(item) ==
    [k \in (DOMAIN item) \ (internal_attributes \cup {"_custom"}) |-> item[k]]

\* _filter_internal_attributes: the item without the five internal keys.
FilterInternalAttributes(item) ==
    [k \in (DOMAIN item) \ internal_attributes |-> item[k]]

\* ----------------------------------------------------------- partition keys

\* A partition_key value: tag "none" is None, "nopaths" a schema object
\* without a paths field, "list" a schema whose paths is a list, "str" one
\* whose paths is a single string (held as a one-element sequence) and
\* "other" one whose paths is neither.
NoPK == [tag |-> "none", paths |-> <<>>]
PKList(p) == [tag |-> "list", paths |-> p]
PKStr(p) == [tag |-> "str", paths |-> <<p>>]
PKNoPaths == [tag |-> "nopaths", paths |-> <<>>]
PKOther == [tag |-> "other", paths |-> <<>>]

\* container.read() of the source store: the properties of container c.
\* Container c declares no partition key.
ContainerProperties(c) ==
    IF c = "a" THEN [hasPartitionKey |-> TRUE, partitionKey |-> PKList(<<"/pk">>)]
    ELSE IF c = "b"
         THEN [hasPartitionKey |-> TRUE,
               partitionKey |-> PKList(<<"/tenant", "/user">>)]
         ELSE [hasPartitionKey |-> FALSE, partitionKey |-> NoPK]

\* -------------------------------------------------------------------- state

VARIABLES
    command,              \* the subcommand running: "dump" or "upload"
    pc,                   \* position of the running operation
    outcome,              \* "" while running, then how the operation ended
    error,                \* message of the exception the operation raised
    store,                \* source database: container -> documents held
    file,                 \* the envelope file: what the path holds
    file_writes,          \* open-for-write calls made on the envelope file
    dump_containers,      \* dump_config.containers, split at the commas
    containers_to_dump,   \* dump: the resolved selection
    output_data,          \* dump: the envelope being assembled
    dump_failed,          \* dump: failed_containers
    attempts,             \* dump: per processed container, name and result
    containers,           \* upload: the container filter, split at the commas
    batch_size, upsert, dry_run, force, create_containers,
    containers_to_process,\* upload: the replay set
    missing_containers,   \* upload: filter names not found in the envelope
    client_ready,         \* upload: the store client has been created
    available_containers, \* upload: catalog listing of the target database
    report,               \* upload: totals printed by the summary / dry run
    total_uploaded, successful_containers, failed_containers,
    idx,                  \* upload: index of the record being processed
    batch_i, batch_j,     \* batch writer: chunk start and offset in the chunk
    uploaded_items,       \* batch writer: responses of the accepted writes
    calls,                \* every store call that creates, writes, deletes
                          \* or lists databases, in order
    prompts,              \* every confirmation asked, with its answer
    argv,                 \* command line: --endpoint, --key, --database
    environ,              \* COSMOS_ENDPOINT, COSMOS_KEY, COSMOS_DATABASE
    db_config,            \* the DatabaseConfig built from them
    missing_params,       \* the missing parameters reported, in order
    exit_code,            \* status passed to sys.exit
    create_database,      \* test: --create-database
    entry_point,          \* delete: the function or the method entered
    account,              \* delete: database name -> containers it holds
    database_name,        \* delete: the database to delete
    list_databases,       \* delete: --list-databases
    db_info,              \* delete: what get_database_info returned
    databases,            \* delete: the database listing obtained
    returned              \* delete: the value returned, "" while running

dumpVars == << store, dump_containers, containers_to_dump, output_data,
               dump_failed, attempts, file_writes >>

configVars == << containers, batch_size, upsert, dry_run, force,
                 create_containers >>

loopVars == << total_uploaded, successful_containers, failed_containers, idx,
               batch_i, batch_j, uploaded_items >>

uploadVars == << configVars, containers_to_process, missing_containers,
                 client_ready, available_containers, report, loopVars,
                 calls, prompts >>

cliVars == << argv, environ, db_config, missing_params, exit_code,
              create_database >>

deleteVars == << entry_point, account, database_name, list_databases,
                 db_info, databases, returned >>

vars == << command, pc, outcome, error, file, dumpVars, uploadVars, cliVars,
           deleteVars >>

\* ----------------------------------------------------------- envelope file

\* The parsed top level of an envelope file.  hasContainers says that the
\* key `containers` is present and holds a list; hasContainer and hasItems
\* that the legacy keys `container` and `items` are present.
NoData ==
    [hasContainers |-> FALSE, containers |-> <<>>, total_containers |-> 0,
     total_items |-> 0, hasContainer |-> FALSE, container |-> "",
     hasItems |-> FALSE, items |-> <<>>, partition_key |-> NoPK]

MissingFile == [kind |-> "missing", data |-> NoData]
InvalidJsonFile == [kind |-> "badjson", data |-> NoData]
JsonFile(d) == [kind |-> "json", data |-> d]

\* json.dump of output_data followed by json.load: the object read back.
EnvelopeData(out) ==
    [NoData EXCEPT !.hasContainers = TRUE,
                   !.containers = out.containers,
                   !.total_containers = out.total_containers,
                   !.total_items = out.total_items]

\* A record whose total_items is left at zero.
ContainerRecordUncounted(name, total, pk, items) ==
    [name |-> name, total_items |-> 0, partition_key |-> pk, items |-> items]

ContainerRecord(name, total, pk, items) ==
    [name |-> name, total_items |-> total, partition_key |-> pk,
     items |-> items]

\* --------------------------------------------------------------------- dump

\* str.strip() of one piece of a comma-separated option.
Strip(t) == IF t = " b" THEN "b" ELSE IF t = "a " THEN "a" ELSE t

\* str.lower() of the whole option, as far as the sentinel is concerned.
Lower(t) == IF t = "ALL" THEN "all" ELSE t

\* [c.strip() for c in option.split(',')]
SplitNames(option) == [i \in DOMAIN option |-> Strip(option[i])]

Raise(msg) ==
    /\ pc' = "raised"
    /\ outcome' = "raised"
    /\ error' = msg

\* get_all_items: the count query, then every document, filtered.
GetAllItems(docs) ==
    IF Len(docs) = 0 THEN <<>>
    ELSE [i \in DOMAIN docs |-> FilterInternalAttributes(docs[i])]

\* _validate_containers
ValidateContainers ==
    /\ command = "dump"
    /\ pc = "d_validate"
    /\ \E listed \in BOOLEAN :
         LET available == SrcContainers
             names     == SplitNames(dump_containers)
             missing   == SelectSeq(names, LAMBDA c : c \notin Range(available))
         IN  IF dump_containers = <<>>
             THEN Raise("No containers specified") /\ UNCHANGED containers_to_dump
             ELSE IF ~listed
             THEN Raise("list_containers failed") /\ UNCHANGED containers_to_dump
             ELSE IF Len(dump_containers) = 1 /\ Lower(dump_containers[1]) = "all"
             THEN /\ containers_to_dump' = available
                  /\ pc' = "d_prepare"
                  /\ UNCHANGED << outcome, error >>
             ELSE IF missing # <<>>
             THEN Raise("Containers not found") /\ UNCHANGED containers_to_dump
             ELSE /\ containers_to_dump' = names
                  /\ pc' = "d_prepare"
                  /\ UNCHANGED << outcome, error >>
    /\ UNCHANGED << cliVars, deleteVars >>
    /\ UNCHANGED << store, dump_containers, output_data, dump_failed, attempts,
                    file_writes, file, command, uploadVars >>

\* _prepare_output_structure
PrepareOutputStructure ==
    /\ command = "dump"
    /\ pc = "d_prepare"
    /\ output_data' = [total_containers |-> Len(containers_to_dump),
                       total_items |-> 0, containers |-> <<>>]
    /\ pc' = "d_process"
    /\ UNCHANGED << cliVars, deleteVars >>
    /\ UNCHANGED << outcome, error, store, dump_containers, containers_to_dump,
                    dump_failed, attempts, file_writes, file, command, uploadVars >>

\* _process_all_containers giving up at the first container that fails.
LoopAfterFailureAborts(ok) == IF ok THEN "d_process" ELSE "d_results"

\* _process_all_containers: whatever _process_container returned, the loop
\* goes on with the next container.
LoopAfterContainer(ok) == "d_process"

\* One iteration of _process_all_containers: _process_container on the next
\* selected container; a store error in it is caught and reported as False.
ProcessContainer ==
    /\ command = "dump"
    /\ pc = "d_process"
    /\ Len(attempts) < Len(containers_to_dump)
    /\ LET container_name == containers_to_dump[Len(attempts) + 1]
           props == ContainerProperties(container_name)
           partition_key == IF props.hasPartitionKey THEN props.partitionKey
                            ELSE NoPK
           items == GetAllItems(store[container_name])
       IN  \E result \in {"ok", "read_error", "query_error"} :
             /\ IF result = "ok"
                THEN /\ output_data' =
                          [output_data EXCEPT
                             !.containers = Append(@,
                                 ContainerRecord(container_name, Len(items),
                                                 partition_key, items)),
                             !.total_items = @ + Len(items)]
                     /\ UNCHANGED dump_failed
                ELSE /\ dump_failed' = Append(dump_failed, container_name)
                     /\ UNCHANGED output_data
             /\ attempts' = Append(attempts,
                                   [name |-> container_name, ok |-> result = "ok"])
             /\ pc' = LoopAfterContainer(result = "ok")
    /\ UNCHANGED << cliVars, deleteVars >>
    /\ UNCHANGED << outcome, error, store, dump_containers, containers_to_dump,
                    file_writes, file, command, uploadVars >>

\* _process_all_containers returns once the selection is exhausted.
ProcessAllContainersReturn ==
    /\ command = "dump"
    /\ pc = "d_process"
    /\ Len(attempts) = Len(containers_to_dump)
    /\ pc' = "d_results"
    /\ UNCHANGED << cliVars, deleteVars >>
    /\ UNCHANGED << outcome, error, dumpVars, file, command, uploadVars >>

\* A result check that lets an envelope without records through.
ResultsAcceptedAlways(records) == TRUE

\* Line 148: the result check passes when some record was produced.
ResultsAccepted(records) == records # <<>>

\* _validate_processing_results
ValidateProcessingResults ==
    /\ command = "dump"
    /\ pc = "d_results"
    /\ IF ~ResultsAccepted(output_data.containers)
       THEN Raise("No containers were successfully processed")
       ELSE pc' = "d_write" /\ UNCHANGED << outcome, error >>
    /\ UNCHANGED << cliVars, deleteVars >>
    /\ UNCHANGED << dumpVars, file, command, uploadVars >>

\* _ensure_output_directory and _write_output_file.  A failure of open()
\* leaves the path as it was; one during json.dump leaves a truncated file.
WriteOutputFile ==
    /\ command = "dump"
    /\ pc = "d_write"
    /\ \E result \in {"ok", "mkdir_error", "open_error", "write_error"} :
         /\ file' = IF result = "ok" THEN JsonFile(EnvelopeData(output_data))
                    ELSE IF result = "write_error" THEN InvalidJsonFile
                    ELSE file
         /\ file_writes' = IF result \in {"ok", "write_error"}
                           THEN file_writes + 1 ELSE file_writes
         /\ IF result = "ok"
            THEN pc' = "d_summary" /\ UNCHANGED << outcome, error >>
            ELSE Raise("Error writing to output file")
    /\ UNCHANGED << cliVars, deleteVars >>
    /\ UNCHANGED << store, dump_containers, containers_to_dump, output_data,
                    dump_failed, attempts, command, uploadVars >>

\* _display_export_summary
DisplayExportSummary ==
    /\ command = "dump"
    /\ pc = "d_summary"
    /\ pc' = "done"
    /\ outcome' = IF dump_failed # <<>> THEN "warning" ELSE "success"
    /\ UNCHANGED << cliVars, deleteVars >>
    /\ UNCHANGED << error, dumpVars, file, command, uploadVars >>


\* ------------------------------------------------------------------- upload

NoKey == [kind |-> "", paths |-> <<>>]

\* A store call as recorded in calls: the operation, the index of the replay
\* record it was made for (0: none), the container, the ladder step and the
\* partition key of a creation, the position of the item written, and
\* whether the store accepted the call.
Call(op, rec, name, step, key, item, ok) ==
    [op |-> op, rec |-> rec, container |-> name, step |-> step, key |-> key,
     item |-> item, ok |-> ok]

Prompt(question, rec, answer) ==
    [question |-> question, rec |-> rec, answer |-> answer]

\* The catalog listings the target database may answer with.
TargetListings == { <<>>, <<"a">>, <<"b", "a">> }

\* sum(c['total_items'] for c in containers_to_process)
TotalItems(records) == SumSeq([i \in DOMAIN records |-> records[i].total_items])

\* A legacy conversion that does not carry the partition key over.
ConvertLegacyWithoutKey(data) ==
    << ContainerRecord(data.container, Len(data.items), NoPK, data.items) >>

\* Line 67 reading only the `items` key.
IsLegacyShapeByItems(data) == data.hasItems

\* Line 67: 'container' in data and 'items' in data
IsLegacyShape(data) == data.hasContainer /\ data.hasItems

\* Legacy conversion: the one-element containers list built from the legacy
\* keys.
ConvertLegacy(data) ==
    << ContainerRecord(data.container, Len(data.items), data.partition_key,
                       data.items) >>

\* Lines 40-77 of upload_entries: the records to replay, given the parsed
\* file and the stripped filter names.  The filter is read only on the
\* multi-container path.
SelectContainers(data, target) ==
    IF data.hasContainers
    THEN IF target # <<>>
         THEN SelectSeq(data.containers, LAMBDA c : c.name \in Range(target))
         ELSE data.containers
    ELSE ConvertLegacy(data)

\* missing_containers: the requested names that no record of the file has.
MissingContainers(data, target) ==
    LET available == [i \in DOMAIN data.containers |-> data.containers[i].name]
    IN  SelectSeq(target, LAMBDA c : c \notin Range(available))

UploadRaise(msg) ==
    /\ pc' = "raised"
    /\ outcome' = "raised"
    /\ error' = msg

\* Lines 25-77: the input file is read, its shape detected and the replay
\* set selected.
LoadInput ==
    /\ command = "upload"
    /\ pc = "u_load"
    /\ LET data    == file.data
           target  == SplitNames(containers)
           missing == MissingContainers(data, target)
       IN  IF file.kind = "missing"
           THEN /\ UploadRaise("Input file not found")
                /\ UNCHANGED << containers_to_process, missing_containers >>
           ELSE IF file.kind = "badjson"
           THEN /\ UploadRaise("Invalid JSON file")
                /\ UNCHANGED << containers_to_process, missing_containers >>
           ELSE IF data.hasContainers /\ containers # <<>> /\ missing # <<>>
           THEN /\ UploadRaise("Specified containers not found in JSON")
                /\ missing_containers' = missing
                /\ UNCHANGED containers_to_process
           ELSE IF ~data.hasContainers /\ ~IsLegacyShape(data)
           THEN /\ UploadRaise("Invalid JSON structure")
                /\ UNCHANGED << containers_to_process, missing_containers >>
           ELSE /\ containers_to_process' = SelectContainers(data, target)
                /\ pc' = "u_client"
                /\ UNCHANGED << outcome, error, missing_containers >>
    /\ UNCHANGED << cliVars, deleteVars >>
    /\ UNCHANGED << command, file, dumpVars, configVars, client_ready,
                    available_containers, report, loopVars, calls, prompts >>

\* Lines 79-85: the store client is created.
InitializeClient ==
    /\ command = "upload"
    /\ pc = "u_client"
    /\ \E ok \in BOOLEAN :
         IF ok
         THEN /\ client_ready' = TRUE
              /\ pc' = "u_list"
              /\ UNCHANGED << outcome, error >>
         ELSE /\ UploadRaise("Error initializing CosmosDB client")
              /\ UNCHANGED client_ready
    /\ UNCHANGED << cliVars, deleteVars >>
    /\ UNCHANGED << command, file, dumpVars, configVars, containers_to_process,
                    missing_containers, available_containers, report, loopVars,
                    calls, prompts >>

\* Lines 93-113: what follows a NotFound answer of list_containers.
AfterDatabaseNotFound ==
    IF ~force /\ ~dry_run THEN "u_confirm_db" ELSE "u_create_db"

\* Lines 87-92, 114-116: the catalog of the target database is listed.
ListContainers ==
    /\ command = "upload"
    /\ pc = "u_list"
    /\ \E answer \in {"ok", "not_found", "error"} :
         \E listing \in TargetListings :
           IF answer = "ok"
           THEN /\ available_containers' = listing
                /\ pc' = "u_summary"
                /\ UNCHANGED << outcome, error >>
           ELSE IF answer = "not_found"
           THEN /\ pc' = AfterDatabaseNotFound
                /\ UNCHANGED << outcome, error, available_containers >>
           ELSE /\ UploadRaise("Error listing containers")
                /\ UNCHANGED available_containers
    /\ UNCHANGED << cliVars, deleteVars >>
    /\ UNCHANGED << command, file, dumpVars, configVars, containers_to_process,
                    missing_containers, client_ready, report, loopVars, calls,
                    prompts >>

\* Lines 94, 102-104: the user is asked whether to create the database.
ConfirmCreateDatabase ==
    /\ command = "upload"
    /\ pc = "u_confirm_db"
    /\ \E answer \in BOOLEAN :
         /\ prompts' = Append(prompts, Prompt("create_database", 0, answer))
         /\ IF answer
            THEN pc' = "u_create_db" /\ UNCHANGED << outcome, error >>
            ELSE UploadRaise("Database creation cancelled")
    /\ UNCHANGED << cliVars, deleteVars >>
    /\ UNCHANGED << command, file, dumpVars, configVars, containers_to_process,
                    missing_containers, client_ready, available_containers,
                    report, loopVars, calls >>

\* Lines 95-101, 107-113: create_database_if_not_exists.
CreateDatabase ==
    /\ command = "upload"
    /\ pc = "u_create_db"
    /\ \E ok \in BOOLEAN :
         /\ calls' = Append(calls,
                Call("create_database", 0, "", "", NoKey, 0, ok))
         /\ IF ok
            THEN /\ available_containers' = <<>>
                 /\ pc' = "u_summary"
                 /\ UNCHANGED << outcome, error >>
            ELSE /\ UploadRaise("Error creating database")
                 /\ UNCHANGED available_containers
    /\ UNCHANGED << cliVars, deleteVars >>
    /\ UNCHANGED << command, file, dumpVars, configVars, containers_to_process,
                    missing_containers, client_ready, report, loopVars,
                    prompts >>

\* Lines 122, 157: the item total of the summary and of the dry-run report.
ReportedItems(records) == TotalItems(records)

\* A summary that is never followed by the question whether to proceed.
AfterSummaryUnconfirmed ==
    IF dry_run THEN "u_dry_run" ELSE "u_start"

\* Lines 150-160: what follows the summary: the question whether to proceed
\* unless force or dry_run is set, the dry-run report, or the loop.
AfterSummary ==
    IF ~force /\ ~dry_run THEN "u_confirm"
    ELSE IF dry_run THEN "u_dry_run" ELSE "u_start"

\* Lines 118-148: the upload summary and the container table.
DisplaySummary ==
    /\ command = "upload"
    /\ pc = "u_summary"
    /\ report' = [containers |-> Len(containers_to_process),
                  items |-> ReportedItems(containers_to_process)]
    /\ pc' = AfterSummary
    /\ UNCHANGED << cliVars, deleteVars >>
    /\ UNCHANGED << command, outcome, error, file, dumpVars, configVars,
                    containers_to_process, missing_containers, client_ready,
                    available_containers, loopVars, calls, prompts >>

\* Lines 150-154: the user is asked whether to proceed.
ConfirmUpload ==
    /\ command = "upload"
    /\ pc = "u_confirm"
    /\ \E answer \in BOOLEAN :
         /\ prompts' = Append(prompts, Prompt("proceed", 0, answer))
         /\ IF answer
            THEN pc' = "u_start" /\ outcome' = outcome
            ELSE pc' = "done" /\ outcome' = "cancelled"
    /\ UNCHANGED << cliVars, deleteVars >>
    /\ UNCHANGED << command, error, file, dumpVars, configVars,
                    containers_to_process, missing_containers, client_ready,
                    available_containers, report, loopVars, calls >>

\* Lines 156-158: the dry run reports and returns.
DryRunReport ==
    /\ command = "upload"
    /\ pc = "u_dry_run"
    /\ report' = [containers |-> Len(containers_to_process),
                  items |-> ReportedItems(containers_to_process)]
    /\ pc' = "done"
    /\ outcome' = "dry_run"
    /\ UNCHANGED << cliVars, deleteVars >>
    /\ UNCHANGED << command, error, file, dumpVars, configVars,
                    containers_to_process, missing_containers, client_ready,
                    available_containers, loopVars, calls, prompts >>

\* Lines 160-163: the counters of the processing loop.
StartProcessing ==
    /\ command = "upload"
    /\ pc = "u_start"
    /\ total_uploaded' = 0
    /\ successful_containers' = <<>>
    /\ failed_containers' = <<>>
    /\ idx' = 1
    /\ pc' = "u_next"
    /\ UNCHANGED << cliVars, deleteVars >>
    /\ UNCHANGED << command, outcome, error, file, dumpVars, configVars,
                    containers_to_process, missing_containers, client_ready,
                    available_containers, report, batch_i, batch_j,
                    uploaded_items, calls, prompts >>

\* failed_containers.append(container_name) without the `continue`.
MarkFailedAndGoOn ==
    /\ failed_containers' =
           Append(failed_containers, containers_to_process[idx].name)
    /\ pc' = "u_upload"
    /\ UNCHANGED << total_uploaded, successful_containers, idx >>

\* `continue` after failed_containers.append(container_name).
MarkFailed ==
    /\ failed_containers' =
           Append(failed_containers, containers_to_process[idx].name)
    /\ idx' = idx + 1
    /\ pc' = "u_next"
    /\ UNCHANGED << total_uploaded, successful_containers >>

\* partition_key and 'paths' in partition_key
HasPaths(partition_key) == partition_key.tag \notin {"none", "nopaths"}

\* An existence check that finds no container.
ContainerExistsNever(container_name, available) == FALSE

\* Line 173: container_name in available_containers
ContainerExists(container_name, available) ==
    container_name \in Range(available)

\* Lines 165-176, 234-238: the next record of the replay set is taken up.
ProcessRecord ==
    /\ command = "upload"
    /\ pc = "u_next"
    /\ idx <= Len(containers_to_process)
    /\ LET container_name   == containers_to_process[idx].name
           container_exists == ContainerExists(container_name,
                                               available_containers)
       IN  IF container_exists
           THEN /\ pc' = "u_upload"
                /\ UNCHANGED << total_uploaded, successful_containers,
                                failed_containers, idx >>
           ELSE IF create_containers
           THEN /\ pc' = IF ~force THEN "u_confirm_container" ELSE "u_create"
                /\ UNCHANGED << total_uploaded, successful_containers,
                                failed_containers, idx >>
           ELSE MarkFailed
    /\ UNCHANGED << cliVars, deleteVars >>
    /\ UNCHANGED << command, outcome, error, file, dumpVars, configVars,
                    containers_to_process, missing_containers, client_ready,
                    available_containers, report, batch_i, batch_j,
                    uploaded_items, calls, prompts >>

\* Lines 179-183: the user is asked whether to create the container.
ConfirmCreateContainer ==
    /\ command = "upload"
    /\ pc = "u_confirm_container"
    /\ \E answer \in BOOLEAN :
         /\ prompts' = Append(prompts, Prompt("create_container", idx, answer))
         /\ IF answer
            THEN /\ pc' = "u_create"
                 /\ UNCHANGED << total_uploaded, successful_containers,
                                 failed_containers, idx >>
            ELSE MarkFailed
    /\ UNCHANGED << cliVars, deleteVars >>
    /\ UNCHANGED << command, outcome, error, file, dumpVars, configVars,
                    containers_to_process, missing_containers, client_ready,
                    available_containers, report, batch_i, batch_j,
                    uploaded_items, calls >>

\* Lines 198-201 (and _create_partition_key): the key built from the paths.
CreatePartitionKey(paths) ==
    IF Len(paths) = 1 THEN [kind |-> "path", paths |-> << paths[1] >>]
    ELSE [kind |-> "paths", paths |-> paths]

\* A ladder that takes a rejected schema for a created container.
AfterSchemaRejectedIgnored == "u_upload"

\* Line 206-210: where the ladder goes when the exact schema is rejected.
AfterSchemaRejected == "u_create_simple"

\* Lines 186-207: creation with the partition key the record carries.
CreateWithPartitionKey ==
    /\ command = "upload"
    /\ pc = "u_create"
    /\ LET rec == containers_to_process[idx]
           partition_key == rec.partition_key
       IN  /\ HasPaths(partition_key)
           /\ IF partition_key.tag = "other"
              THEN MarkFailed /\ UNCHANGED calls
              ELSE \E ok \in BOOLEAN :
                     /\ calls' = Append(calls,
                            Call("create_container", idx, rec.name, "schema",
                                 CreatePartitionKey(partition_key.paths), 0, ok))
                     /\ pc' = IF ok THEN "u_upload" ELSE AfterSchemaRejected
                     /\ UNCHANGED << total_uploaded, successful_containers,
                                     failed_containers, idx >>
    /\ UNCHANGED << cliVars, deleteVars >>
    /\ UNCHANGED << command, outcome, error, file, dumpVars, configVars,
                    containers_to_process, missing_containers, client_ready,
                    available_containers, report, batch_i, batch_j,
                    uploaded_items, prompts >>

\* Lines 208-219: creation with the single path `pk`.
CreateWithSimpleKey ==
    /\ command = "upload"
    /\ pc = "u_create_simple"
    /\ \E ok \in BOOLEAN :
         /\ calls' = Append(calls,
                Call("create_container", idx, containers_to_process[idx].name,
                     "simple", [kind |-> "path", paths |-> << "pk" >>], 0, ok))
         /\ IF ok
            THEN /\ pc' = "u_upload"
                 /\ UNCHANGED << total_uploaded, successful_containers,
                                 failed_containers, idx >>
            ELSE MarkFailed
    /\ UNCHANGED << cliVars, deleteVars >>
    /\ UNCHANGED << command, outcome, error, file, dumpVars, configVars,
                    containers_to_process, missing_containers, client_ready,
                    available_containers, report, batch_i, batch_j,
                    uploaded_items, prompts >>

\* Lines 220-229: creation with the default path `/id`.
CreateWithDefaultKey ==
    /\ command = "upload"
    /\ pc = "u_create"
    /\ ~HasPaths(containers_to_process[idx].partition_key)
    /\ \E ok \in BOOLEAN :
         /\ calls' = Append(calls,
                Call("create_container", idx, containers_to_process[idx].name,
                     "default", [kind |-> "path", paths |-> << "/id" >>], 0, ok))
         /\ IF ok
            THEN /\ pc' = "u_upload"
                 /\ UNCHANGED << total_uploaded, successful_containers,
                                 failed_containers, idx >>
            ELSE MarkFailed
    /\ UNCHANGED << cliVars, deleteVars >>
    /\ UNCHANGED << command, outcome, error, file, dumpVars, configVars,
                    containers_to_process, missing_containers, client_ready,
                    available_containers, report, batch_i, batch_j,
                    uploaded_items, prompts >>

\* The response of the store to an accepted write: the document as stored,
\* with the internal attributes the store adds.
StoreResponse(item) ==
    [k \in (DOMAIN item) \cup internal_attributes |->
        IF k \in DOMAIN item THEN item[k] ELSE 1]

\* items[i:i + batch_size] for the chunk starting at 0-based position i.
Batch(items, i) ==
    SubSeq(items, i + 1, IF i + batch_size < Len(items) THEN i + batch_size
                         ELSE Len(items))

\* A record end that lists a container only when items were accepted for it.
FinishRecordUnlisted(ok, uploaded) ==
    /\ total_uploaded' = IF ok THEN total_uploaded + Len(uploaded)
                         ELSE total_uploaded
    /\ successful_containers' =
           IF ok /\ uploaded # <<>>
           THEN Append(successful_containers, containers_to_process[idx].name)
           ELSE successful_containers
    /\ failed_containers' =
           IF ok THEN failed_containers
           ELSE Append(failed_containers, containers_to_process[idx].name)
    /\ idx' = idx + 1
    /\ pc' = "u_next"

\* Lines 252, 256 and 260: the record is entered in one of the two lists.
FinishRecord(ok, uploaded) ==
    /\ IF ok
       THEN /\ total_uploaded' = total_uploaded + Len(uploaded)
            /\ successful_containers' =
                   Append(successful_containers, containers_to_process[idx].name)
            /\ UNCHANGED failed_containers
       ELSE /\ failed_containers' =
                   Append(failed_containers, containers_to_process[idx].name)
            /\ UNCHANGED << total_uploaded, successful_containers >>
    /\ idx' = idx + 1
    /\ pc' = "u_next"

\* Lines 240-248, 258-260 and the start of create_items_batch /
\* upsert_items_batch: range(0, len(items), batch_size) raises ValueError
\* for a step of 0 and is empty for a negative step.
UploadItems ==
    /\ command = "upload"
    /\ pc = "u_upload"
    /\ LET items == containers_to_process[idx].items
       IN  IF items = <<>>
           THEN FinishRecord(TRUE, <<>>)
                /\ UNCHANGED << batch_i, batch_j, uploaded_items >>
           ELSE IF batch_size = 0
           THEN FinishRecord(FALSE, <<>>)
                /\ UNCHANGED << batch_i, batch_j, uploaded_items >>
           ELSE IF batch_size < 0
           THEN FinishRecord(TRUE, <<>>)
                /\ UNCHANGED << batch_i, batch_j, uploaded_items >>
           ELSE /\ batch_i' = 0
                /\ batch_j' = 0
                /\ uploaded_items' = <<>>
                /\ pc' = "u_write"
                /\ UNCHANGED << total_uploaded, successful_containers,
                                failed_containers, idx >>
    /\ UNCHANGED << cliVars, deleteVars >>
    /\ UNCHANGED << command, outcome, error, file, dumpVars, configVars,
                    containers_to_process, missing_containers, client_ready,
                    available_containers, report, calls, prompts >>

\* Lines 233-240 / 261-268: a write the store rejects with a
\* CosmosHttpResponseError is logged and the loop goes on; any other
\* exception leaves the batch writer.
BatchContinuesAfter(result) == result \in {"ok", "cosmos_error"}

\* One write of create_items_batch / upsert_items_batch, with the return of
\* the batch writer and lines 250-257 of upload_entries when it was the last.
WriteItem ==
    /\ command = "upload"
    /\ pc = "u_write"
    /\ LET rec   == containers_to_process[idx]
           items == rec.items
           pos   == batch_i + batch_j + 1
           op    == IF upsert THEN "upsert_item" ELSE "create_item"
           batch == Batch(items, batch_i)
           lastInBatch == batch_j + 1 >= Len(batch)
           next_i == IF lastInBatch THEN batch_i + batch_size ELSE batch_i
           next_j == IF lastInBatch THEN 0 ELSE batch_j + 1
       IN  \E result \in {"ok", "cosmos_error", "error"} :
             LET uploaded == IF result = "ok"
                             THEN Append(uploaded_items, StoreResponse(items[pos]))
                             ELSE uploaded_items
             IN  /\ calls' = Append(calls,
                        Call(op, idx, rec.name, "", NoKey, pos, result = "ok"))
                 /\ IF ~BatchContinuesAfter(result)
                    THEN /\ FinishRecord(FALSE, <<>>)
                         /\ UNCHANGED << batch_i, batch_j, uploaded_items >>
                    ELSE IF next_i >= Len(items)
                    THEN /\ FinishRecord(TRUE, uploaded)
                         /\ uploaded_items' = uploaded
                         /\ UNCHANGED << batch_i, batch_j >>
                    ELSE /\ batch_i' = next_i
                         /\ batch_j' = next_j
                         /\ uploaded_items' = uploaded
                         /\ UNCHANGED << pc, total_uploaded,
                                         successful_containers,
                                         failed_containers, idx >>
    /\ UNCHANGED << cliVars, deleteVars >>
    /\ UNCHANGED << command, outcome, error, file, dumpVars, configVars,
                    containers_to_process, missing_containers, client_ready,
                    available_containers, report, prompts >>

\* A result check that raises as soon as one container failed.
VerdictRaisesOnAnyFailure(successful, failed) ==
    IF successful = <<>> \/ failed # <<>> THEN "raised" ELSE "success"

\* Lines 275-282: the check of the results.
UploadVerdict(successful, failed) ==
    IF successful = <<>> THEN "raised"
    ELSE IF failed # <<>> THEN "warning" ELSE "success"

\* Lines 262-282: the results are displayed and checked.
DisplayResults ==
    /\ command = "upload"
    /\ pc = "u_next"
    /\ idx > Len(containers_to_process)
    /\ IF UploadVerdict(successful_containers, failed_containers) = "raised"
       THEN UploadRaise("No containers were successfully processed")
       ELSE /\ pc' = "done"
            /\ outcome' = UploadVerdict(successful_containers,
                                        failed_containers)
            /\ error' = error
    /\ UNCHANGED << cliVars, deleteVars >>
    /\ UNCHANGED << command, file, dumpVars, uploadVars >>

UploadNext ==
    \/ LoadInput
    \/ InitializeClient
    \/ ListContainers
    \/ ConfirmCreateDatabase
    \/ CreateDatabase
    \/ DisplaySummary
    \/ ConfirmUpload
    \/ DryRunReport
    \/ StartProcessing
    \/ ProcessRecord
    \/ ConfirmCreateContainer
    \/ CreateWithPartitionKey
    \/ CreateWithSimpleKey
    \/ CreateWithDefaultKey
    \/ UploadItems
    \/ WriteItem
    \/ DisplayResults

DumpNext ==
    \/ ValidateContainers
    \/ PrepareOutputStructure
    \/ ProcessContainer
    \/ ProcessAllContainersReturn
    \/ ValidateProcessingResults
    \/ WriteOutputFile
    \/ DisplayExportSummary

\* ------------------------------------------------------------- command line

\* A parameter that was not given: None.
None == "None"

\* Truth value of a Python string or None.
Truthy(v) == v \notin {None, ""}

\* A resolution that reads the command line only.
OptionOnly(a, b) == a

\* Python's `a or b`.
Or(a, b) == IF Truthy(a) THEN a ELSE b

Params == {"endpoint", "key", "database"}

NoConfig == [p \in Params |-> None]

Subcommands == {"test", "status", "dump", "upload", "delete-db"}

\* The name under which a missing parameter is reported.
ParamMessage(p) ==
    IF p = "endpoint" THEN "endpoint (--endpoint/-e or COSMOS_ENDPOINT)"
    ELSE IF p = "key" THEN "key (--key/-k or COSMOS_KEY)"
    ELSE "database (--database/-d or COSMOS_DATABASE)"

\* The exception of a subcommand is caught by its command function, which
\* logs it and calls sys.exit(1).
CliFail(msg) ==
    /\ pc' = "exited"
    /\ outcome' = "raised"
    /\ error' = msg
    /\ exit_code' = 1

\* _create_database_config: the parameters are resolved from the command
\* line or the environment; the missing ones are reported and the process
\* exits with status 1.
CreateDatabaseConfig ==
    /\ command \in Subcommands
    /\ pc = "cli_config"
    /\ LET final == [p \in Params |-> Or(argv[p], environ[p])]
           miss(p) == IF ~Truthy(final[p]) THEN << ParamMessage(p) >> ELSE <<>>
           missing == miss("endpoint") \o miss("key") \o miss("database")
       IN  IF missing # <<>>
           THEN /\ missing_params' = missing
                /\ exit_code' = 1
                /\ pc' = "exited"
                /\ UNCHANGED db_config
           ELSE /\ db_config' = final
                /\ pc' = "cli_run"
                /\ UNCHANGED << missing_params, exit_code >>
    /\ UNCHANGED deleteVars
    /\ UNCHANGED << command, outcome, error, file, dumpVars, uploadVars, argv,
                    environ, create_database >>

\* status, dump, upload, delete-db: the executor of the subcommand is built
\* from the configuration, which creates the store client, and is run.
RunSubcommand ==
    /\ command \in Subcommands \ {"test"}
    /\ pc = "cli_run"
    /\ \E ok \in BOOLEAN :
         IF ok
         THEN /\ client_ready' = TRUE
              /\ pc' = "cli_started"
              /\ UNCHANGED << outcome, error, exit_code >>
         ELSE CliFail("Error initializing client") /\ UNCHANGED client_ready
    /\ UNCHANGED deleteVars
    /\ UNCHANGED << command, file, dumpVars, configVars, containers_to_process,
                    missing_containers, available_containers, report, loopVars,
                    calls, prompts, argv, environ, db_config, missing_params,
                    create_database >>

\* ---------------------------------------------------------- connection test

\* ConnectionTester._initialize_client
TestInitializeClient ==
    /\ command = "test"
    /\ pc = "cli_run"
    /\ \E ok \in BOOLEAN :
         IF ok
         THEN /\ client_ready' = TRUE
              /\ pc' = "t_access"
              /\ UNCHANGED << outcome, error, exit_code >>
         ELSE CliFail("Error initializing client") /\ UNCHANGED client_ready
    /\ UNCHANGED deleteVars
    /\ UNCHANGED << command, file, dumpVars, configVars, containers_to_process,
                    missing_containers, available_containers, report, loopVars,
                    calls, prompts, argv, environ, db_config, missing_params,
                    create_database >>

\* _handle_database_not_found: if connection_config.create_database
CreationRequested == create_database

\* _test_database_access with _handle_database_not_found.
TestDatabaseAccess ==
    /\ command = "test"
    /\ pc = "t_access"
    /\ \E answer \in {"ok", "not_found", "error"} :
         \E listing \in TargetListings :
           IF answer = "ok"
           THEN /\ available_containers' = listing
                /\ pc' = "t_display"
                /\ UNCHANGED << outcome, error, exit_code >>
           ELSE IF answer = "not_found" /\ CreationRequested
           THEN /\ pc' = "t_create"
                /\ UNCHANGED << outcome, error, exit_code,
                                available_containers >>
           ELSE /\ CliFail(IF answer = "not_found"
                           THEN "Database does not exist"
                           ELSE "Error accessing database")
                /\ UNCHANGED available_containers
    /\ UNCHANGED deleteVars
    /\ UNCHANGED << command, file, dumpVars, configVars, containers_to_process,
                    missing_containers, client_ready, report, loopVars, calls,
                    prompts, argv, environ, db_config, missing_params,
                    create_database >>

\* _create_database: the prompt unless --force, then the creation.
TestCreateDatabase ==
    /\ command = "test"
    /\ pc = "t_create"
    /\ \E answer \in BOOLEAN, ok \in BOOLEAN :
         /\ prompts' = IF ~force
                       THEN Append(prompts, Prompt("create_database", 0, answer))
                       ELSE prompts
         /\ IF ~force /\ ~answer
            THEN /\ CliFail("Database creation cancelled by user")
                 /\ UNCHANGED calls
            ELSE /\ calls' = Append(calls,
                        Call("create_database", 0, "", "", NoKey, 0, ok))
                 /\ IF ok
                    THEN /\ pc' = "t_access_after"
                         /\ UNCHANGED << outcome, error, exit_code >>
                    ELSE CliFail("Error creating database")
    /\ UNCHANGED deleteVars
    /\ UNCHANGED << command, file, dumpVars, configVars, containers_to_process,
                    missing_containers, client_ready, available_containers,
                    report, loopVars, argv, environ, db_config, missing_params,
                    create_database >>

\* _test_database_access_after_creation
TestDatabaseAccessAfterCreation ==
    /\ command = "test"
    /\ pc = "t_access_after"
    /\ \E ok \in BOOLEAN :
         IF ok
         THEN /\ available_containers' = <<>>
              /\ pc' = "t_display"
              /\ UNCHANGED << outcome, error, exit_code >>
         ELSE /\ CliFail("Error testing database access after creation")
              /\ UNCHANGED available_containers
    /\ UNCHANGED deleteVars
    /\ UNCHANGED << command, file, dumpVars, configVars, containers_to_process,
                    missing_containers, client_ready, report, loopVars, calls,
                    prompts, argv, environ, db_config, missing_params,
                    create_database >>

\* _display_containers; test_connection returns.
DisplayContainers ==
    /\ command = "test"
    /\ pc = "t_display"
    /\ pc' = "done"
    /\ outcome' = "success"
    /\ UNCHANGED deleteVars
    /\ UNCHANGED << command, error, file, dumpVars, uploadVars, cliVars >>

CliNext ==
    \/ CreateDatabaseConfig
    \/ RunSubcommand
    \/ TestInitializeClient
    \/ TestDatabaseAccess
    \/ TestCreateDatabase
    \/ TestDatabaseAccessAfterCreation
    \/ DisplayContainers

\* ---------------------------------------------------------- database delete

\* The databases an account may hold, in the order the account lists them.
DbNames == << "db", "other" >>

\* get_database_info returned None.
NoInfo == [found |-> FALSE, container_count |-> 0]

\* Lines 57-65: the dictionary get_database_info returns for a database.
DatabaseInfo(count) == [found |-> TRUE, container_count |-> count]

\* The account without a database.
WithoutDatabase(acc, name) == [d \in DOMAIN acc \ {name} |-> acc[d]]

\* Lines 41-42: the ids of the account's databases.
DatabaseIds(acc) == SelectSeq(DbNames, LAMBDA d : d \in DOMAIN acc)

\* The two entry points of delete.py.
ModuleFunction == "delete_database"
DeleterMethod == "DatabaseDeleter.delete_database"

\* The variables no step of delete.py touches.
deleteFrame == << command, file, dumpVars, configVars, containers_to_process,
                  missing_containers, available_containers, report, loopVars,
                  cliVars, entry_point, database_name, list_databases >>

\* A default branch that goes on to delete the database.
DefaultBranchDeletes == "x_info"

\* Lines 165-173: without list_databases the function lists the databases
\* all the same.
DefaultBranch == "m_list"

\* Lines 20-36, 145-147: the deleter is constructed, which creates the store
\* client; the function then branches on list_databases.
DeleterInit ==
    /\ command = "delete-db"
    /\ pc = "m_init"
    /\ \E ok \in BOOLEAN :
         IF ok
         THEN /\ client_ready' = TRUE
              /\ pc' = IF entry_point = DeleterMethod THEN "x_info"
                       ELSE IF list_databases THEN "m_list"
                       ELSE DefaultBranch
              /\ UNCHANGED << outcome, error >>
         ELSE Raise("Error creating client") /\ UNCHANGED client_ready
    /\ UNCHANGED << deleteFrame, calls, prompts, account, db_info, databases,
                    returned >>

\* Lines 38-45, 149-163, 173-186: the databases are listed and shown, and
\* the function returns None.
ListDatabases ==
    /\ command = "delete-db"
    /\ pc = "m_list"
    /\ \E ok \in BOOLEAN :
         /\ calls' = Append(calls, Call("list_databases", 0, "", "", NoKey,
                                        0, ok))
         /\ IF ok
            THEN /\ databases' = DatabaseIds(account)
                 /\ returned' = None
                 /\ pc' = "done"
                 /\ outcome' = "success"
                 /\ error' = error
            ELSE /\ Raise("Error listing databases")
                 /\ UNCHANGED << databases, returned >>
    /\ UNCHANGED << deleteFrame, client_ready, prompts, account, db_info >>

\* Lines 47-74, 80-83: get_database_info; a database that does not exist
\* answers 404, for which the method returns False.
GetDatabaseInfo ==
    /\ command = "delete-db"
    /\ pc = "x_info"
    /\ \E ok \in BOOLEAN :
         IF ~ok
         THEN /\ Raise("Error getting database info")
              /\ UNCHANGED << db_info, returned >>
         ELSE IF database_name \notin DOMAIN account
         THEN /\ db_info' = NoInfo
              /\ returned' = "False"
              /\ pc' = "done"
              /\ outcome' = "not_found"
              /\ error' = error
         ELSE /\ db_info' = DatabaseInfo(account[database_name])
              /\ pc' = IF ~force THEN "x_confirm" ELSE "x_delete"
              /\ UNCHANGED << outcome, error, returned >>
    /\ UNCHANGED << deleteFrame, client_ready, calls, prompts, account,
                    databases >>

\* A deletion that never asks a second time.
NeverSecondConfirmation(info) == FALSE

\* Line 110: if db_info['container_count'] > 0
NeedsSecondConfirmation(info) == info.container_count > 0

\* Lines 97-107: the first confirmation.
ConfirmDeletion ==
    /\ command = "delete-db"
    /\ pc = "x_confirm"
    /\ \E answer \in BOOLEAN :
         /\ prompts' = Append(prompts, Prompt("delete_database", 0, answer))
         /\ IF answer
            THEN /\ pc' = IF NeedsSecondConfirmation(db_info)
                          THEN "x_confirm_all" ELSE "x_delete"
                 /\ UNCHANGED << outcome, returned >>
            ELSE /\ pc' = "done"
                 /\ outcome' = "cancelled"
                 /\ returned' = "False"
    /\ UNCHANGED << deleteFrame, client_ready, error, calls, account, db_info,
                    databases >>

\* Lines 109-119: the second confirmation, for a database with containers.
ConfirmDeleteAllData ==
    /\ command = "delete-db"
    /\ pc = "x_confirm_all"
    /\ \E answer \in BOOLEAN :
         /\ prompts' = Append(prompts, Prompt("delete_all_data", 0, answer))
         /\ IF answer
            THEN /\ pc' = "x_delete"
                 /\ UNCHANGED << outcome, returned >>
            ELSE /\ pc' = "done"
                 /\ outcome' = "cancelled"
                 /\ returned' = "False"
    /\ UNCHANGED << deleteFrame, client_ready, error, calls, account, db_info,
                    databases >>

\* Lines 121-136: the store's delete call; a 404 answer (the database is
\* gone by now) makes the method return False, any other error is raised.
DeleteDatabaseCall ==
    /\ command = "delete-db"
    /\ pc = "x_delete"
    /\ \E result \in {"ok", "not_found", "error"} :
         /\ calls' = Append(calls, Call("delete_database", 0, database_name,
                                        "", NoKey, 0, result = "ok"))
         /\ IF result = "error"
            THEN /\ Raise("Error deleting database")
                 /\ UNCHANGED << account, returned >>
            ELSE /\ account' = WithoutDatabase(account, database_name)
                 /\ returned' = IF result = "ok" THEN "True" ELSE "False"
                 /\ pc' = "done"
                 /\ outcome' = IF result = "ok" THEN "success" ELSE "not_found"
                 /\ error' = error
    /\ UNCHANGED << deleteFrame, client_ready, prompts, db_info, databases >>

DeleteNext ==
    \/ DeleterInit
    \/ ListDatabases
    \/ GetDatabaseInfo
    \/ ConfirmDeletion
    \/ ConfirmDeleteAllData
    \/ DeleteDatabaseCall

\* ------------------------------------------------------------ initial states

\* --batch-size of the dump and upload subcommands when the option is absent.
DefaultBatchSize == 100

\* Batch sizes the command line accepts: any integer.
BatchSizes == {-1, 0, 1, 2, DefaultBatchSize}

DocsOf(c, n) == [i \in 1..n |-> StoreDoc(c, i)]

\* The documents of a record dumped from container c holding n documents.
ItemsOf(c, n) == [i \in 1..n |-> FilterInternalAttributes(StoreDoc(c, i))]

EmptyStore == [c \in Range(SrcContainers) |-> <<>>]

EmptyOutput == [total_containers |-> 0, total_items |-> 0, containers |-> <<>>]

DumpIdle ==
    /\ store = EmptyStore
    /\ dump_containers = <<>>
    /\ containers_to_dump = <<>>
    /\ output_data = EmptyOutput
    /\ dump_failed = <<>>
    /\ attempts = <<>>
    /\ file_writes = 0

UploadIdle ==
    /\ containers = <<>>
    /\ batch_size = DefaultBatchSize
    /\ upsert = FALSE
    /\ dry_run = FALSE
    /\ force = FALSE
    /\ create_containers = FALSE

UploadState0 ==
    /\ containers_to_process = <<>>
    /\ missing_containers = <<>>
    /\ client_ready = FALSE
    /\ available_containers = <<>>
    /\ report = [containers |-> 0, items |-> 0]
    /\ total_uploaded = 0
    /\ successful_containers = <<>>
    /\ failed_containers = <<>>
    /\ idx = 0
    /\ batch_i = 0
    /\ batch_j = 0
    /\ uploaded_items = <<>>
    /\ calls = <<>>
    /\ prompts = <<>>

\* The command line of a subcommand whose parameters were all given as
\* options and whose configuration has been built.
CliConfigured ==
    /\ argv = [p \in Params |-> "cli"]
    /\ environ = NoConfig
    /\ db_config = [p \in Params |-> "cli"]
    /\ missing_params = <<>>
    /\ exit_code = 0
    /\ create_database = FALSE

\* No delete operation is running.
DeleteIdle ==
    /\ entry_point = ""
    /\ account = [d \in {} |-> 0]
    /\ database_name = ""
    /\ list_databases = FALSE
    /\ db_info = NoInfo
    /\ databases = <<>>
    /\ returned = ""

\* Sequences over S of length 1..n.
SeqsUpTo(S, n) == UNION { [1..k -> S] : k \in 1..n }

\* Values of dump --containers: absent, the sentinel, or a list of names
\* ("zz" names no container of the database).
DumpSelections ==
    { <<>>, <<"all">>, <<"ALL">> } \cup SeqsUpTo({"a", " b", "zz"}, MaxSel)

DumpInit ==
    /\ command = "dump"
    /\ pc = "d_validate"
    /\ outcome = ""
    /\ error = ""
    /\ file = MissingFile
    /\ \E n \in [Range(SrcContainers) -> 0..MaxItems] :
         store = [c \in Range(SrcContainers) |-> DocsOf(c, n[c])]
    /\ dump_containers \in DumpSelections
    /\ containers_to_dump = <<>>
    /\ output_data = EmptyOutput
    /\ dump_failed = <<>>
    /\ attempts = <<>>
    /\ file_writes = 0
    /\ UploadIdle
    /\ UploadState0
    /\ CliConfigured
    /\ DeleteIdle

\* Envelope files of the multi-container shape.
Envelope(records, total) ==
    JsonFile([NoData EXCEPT !.hasContainers = TRUE, !.containers = records,
                            !.total_containers = Len(records),
                            !.total_items = total])

\* Two records as a dump writes them.
EnvMain ==
    Envelope(<< ContainerRecord("a", MaxItems, PKList(<<"/pk">>),
                                ItemsOf("a", MaxItems)),
                ContainerRecord("b", 1, NoPK, ItemsOf("b", 1)) >>,
             MaxItems + 1)

\* Records whose total_items is not the length of items; a composite key and
\* a paths field that is a single string.
EnvStale ==
    Envelope(<< ContainerRecord("a", MaxItems + 1,
                                PKList(<<"/tenant", "/user">>),
                                ItemsOf("a", MaxItems)),
                ContainerRecord("b", 0, PKStr("/pk"), ItemsOf("b", 1)) >>,
             0)

\* Two records of one name; a paths field of another type, a schema without
\* paths.
EnvOdd ==
    Envelope(<< ContainerRecord("c", 1, PKOther, ItemsOf("c", 1)),
                ContainerRecord("c", 1, PKNoPaths, ItemsOf("c", 1)) >>,
             2)

EnvEmpty == Envelope(<<>>, 0)

\* A record whose schema carries an empty paths list.
EnvEmptyPaths ==
    Envelope(<< ContainerRecord("c", 1, PKList(<<>>), ItemsOf("c", 1)) >>, 1)

\* The legacy single-container shape.
LegacyFile ==
    JsonFile([NoData EXCEPT !.hasContainer = TRUE, !.container = "a",
                            !.hasItems = TRUE, !.items = ItemsOf("a", MaxItems),
                            !.partition_key = PKList(<<"/pk">>)])

\* The legacy shape without a partition_key.
LegacyFileWithoutKey ==
    JsonFile([NoData EXCEPT !.hasContainer = TRUE, !.container = "b",
                            !.hasItems = TRUE, !.items = ItemsOf("b", 1)])

\* Neither shape: no key at all, `container` without `items`, `items`
\* without `container`.
OtherShapeFiles ==
    { JsonFile(NoData),
      JsonFile([NoData EXCEPT !.hasContainer = TRUE, !.container = "a"]),
      JsonFile([NoData EXCEPT !.hasItems = TRUE, !.items = ItemsOf("a", 1)]) }

InputFiles ==
    { MissingFile, InvalidJsonFile, EnvMain, EnvStale, EnvOdd, EnvEmpty,
      EnvEmptyPaths, LegacyFile, LegacyFileWithoutKey } \cup OtherShapeFiles

\* Values of upload --containers ("yy" and "zz" name no record).
Filters == { <<>>, <<"a">>, <<" b", "a ">>, <<"a", "zz">>, <<"yy", "b", "zz">> }

\* An upload from each input file under each filter, with the prompts
\* skipped, or from the main envelope under every combination of options.
UploadInit ==
    /\ command = "upload"
    /\ pc = "u_load"
    /\ outcome = ""
    /\ error = ""
    /\ DumpIdle
    /\ UploadState0
    /\ CliConfigured
    /\ DeleteIdle
    /\ dry_run \in BOOLEAN
    /\ \/ /\ file \in InputFiles
          /\ containers \in Filters
          /\ batch_size = DefaultBatchSize
          /\ upsert = TRUE
          /\ force = TRUE
          /\ create_containers = TRUE
       \/ /\ file = EnvMain
          /\ containers = <<>>
          /\ batch_size \in BatchSizes
          /\ upsert \in BOOLEAN
          /\ force \in BOOLEAN
          /\ create_containers \in BOOLEAN

\* A subcommand is invoked: each parameter is absent, empty or given, on
\* the command line and in the environment.
CliInit ==
    /\ command \in Subcommands
    /\ pc = "cli_config"
    /\ outcome = ""
    /\ error = ""
    /\ file = MissingFile
    /\ DumpIdle
    /\ containers = <<>>
    /\ batch_size = DefaultBatchSize
    /\ upsert = FALSE
    /\ dry_run = FALSE
    /\ create_containers = FALSE
    /\ UploadState0
    /\ argv \in [Params -> {None, "", "cli"}]
    /\ environ \in [Params -> {None, "", "env"}]
    /\ db_config = NoConfig
    /\ missing_params = <<>>
    /\ DeleteIdle
    /\ exit_code = 0
    /\ IF command = "test"
       THEN force \in BOOLEAN /\ create_database \in BOOLEAN
       ELSE force = FALSE /\ create_database = FALSE

SpecCli == CliInit /\ [][CliNext]_vars

SpecDump == DumpInit /\ [][DumpNext]_vars

SpecUpload == UploadInit /\ [][UploadNext]_vars

\* ---------------------------------------------------------------- round trip

\* An upload is started on the file a completed dump has written.
StartUploadOfDump ==
    /\ command = "dump"
    /\ pc = "done"
    /\ command' = "upload"
    /\ pc' = "u_load"
    /\ outcome' = ""
    /\ containers' = <<>>
    /\ batch_size' \in BatchSizes
    /\ upsert' \in BOOLEAN
    /\ dry_run' \in BOOLEAN
    /\ force' \in BOOLEAN
    /\ create_containers' \in BOOLEAN
    /\ UNCHANGED << cliVars, deleteVars >>
    /\ UNCHANGED << error, file, dumpVars, containers_to_process,
                    missing_containers, client_ready, available_containers,
                    report, loopVars, calls, prompts >>

\* A dump of one container of a database whose other containers are empty.
RoundTripInit ==
    /\ command = "dump"
    /\ pc = "d_validate"
    /\ outcome = ""
    /\ error = ""
    /\ file = MissingFile
    /\ \E c \in Range(SrcContainers) :
         /\ dump_containers = << c >>
         /\ \E n \in 0..MaxItems :
              store = [x \in Range(SrcContainers) |->
                          IF x = c THEN DocsOf(c, n) ELSE <<>>]
    /\ containers_to_dump = <<>>
    /\ output_data = EmptyOutput
    /\ dump_failed = <<>>
    /\ attempts = <<>>
    /\ file_writes = 0
    /\ UploadIdle
    /\ UploadState0
    /\ CliConfigured
    /\ DeleteIdle

RoundTripNext == DumpNext \/ StartUploadOfDump \/ UploadNext

SpecRoundTrip == RoundTripInit /\ [][RoundTripNext]_vars

\* ------------------------------------------------- connection test or upload

TestOrUploadInit == CliInit \/ UploadInit

TestOrUploadNext == CliNext \/ UploadNext

SpecTestOrUpload == TestOrUploadInit /\ [][TestOrUploadNext]_vars

\* ---------------------------------------------------------- database delete

\* Accounts holding some of the databases, each with 0..MaxDbContainers
\* containers.
Accounts ==
    UNION { [D -> 0..MaxDbContainers] : D \in SUBSET Range(DbNames) }

\* Either the module-level function is called, with any list_databases and
\* force, or the method of a deleter is called for a database, with any
\* force.
DeleteInit ==
    /\ command = "delete-db"
    /\ pc = "m_init"
    /\ outcome = ""
    /\ error = ""
    /\ file = MissingFile
    /\ DumpIdle
    /\ containers = <<>>
    /\ batch_size = DefaultBatchSize
    /\ upsert = FALSE
    /\ dry_run = FALSE
    /\ create_containers = FALSE
    /\ force \in BOOLEAN
    /\ UploadState0
    /\ CliConfigured
    /\ account \in Accounts
    /\ database_name \in Range(DbNames)
    /\ entry_point \in {ModuleFunction, DeleterMethod}
    /\ list_databases \in IF entry_point = ModuleFunction
                          THEN BOOLEAN ELSE {FALSE}
    /\ db_info = NoInfo
    /\ databases = <<>>
    /\ returned = ""

SpecDelete == DeleteInit /\ [][DeleteNext]_vars

\* -------------------------------------------------------------------- claims

WriteOps == {"create_item", "upsert_item"}

MutatingOps == WriteOps \cup {"create_database", "create_container"}

\* The store calls made for replay record r, in order.
CallsFor(r, ops) == SelectSeq(calls, LAMBDA c : c.rec = r /\ c.op \in ops)

\* The records of the envelope as dump holds it and as the file holds it.
DumpedRecords ==
    Range(output_data.containers) \cup Range(file.data.containers)

\* C1: every document dump places in an envelope is the document the store
\* returned with exactly the five internal keys removed: none of the five is
\* a key of it, every other key of the stored document is a key of it with
\* the same value, and it has no further key.
C1_DocumentsFiltered ==
    command = "dump" =>
      \A r \in DumpedRecords :
        /\ Len(r.items) = Len(store[r.name])
        /\ \A i \in DOMAIN r.items :
             LET doc    == r.items[i]
                 stored == store[r.name][i]
             IN  /\ (DOMAIN doc) \cap internal_attributes = {}
                 /\ DOMAIN doc \subseteq DOMAIN stored
                 /\ \A k \in (DOMAIN stored) \ internal_attributes :
                      k \in DOMAIN doc /\ doc[k] = stored[k]

\* C1 witness: the written file holds a document whose stored form carried
\* all five internal keys, and one that carried the user key "_custom".
C1_Witness ==
    /\ command = "dump"
    /\ file.kind = "json"
    /\ \E r \in Range(file.data.containers) :
         /\ \E i \in DOMAIN r.items :
              internal_attributes \subseteq DOMAIN store[r.name][i]
         /\ \E i \in DOMAIN r.items : "_custom" \in DOMAIN store[r.name][i]

\* The upload ran its processing loop to the end and checked the results.
UploadFinished ==
    /\ command = "upload"
    /\ pc \in {"done", "raised"}
    /\ idx > Len(containers_to_process)

\* C2: a container with N documents is dumped and the envelope uploaded in
\* upsert mode into a database where the container exists, every write
\* being accepted: total_uploaded is N and no container failed.
C2_RoundTrip ==
    ( /\ UploadFinished
      /\ upsert
      /\ Len(containers_to_dump) = 1
      /\ containers_to_dump[1] \in Range(available_containers)
      /\ \A i \in DOMAIN calls : calls[i].ok )
    => /\ total_uploaded = Len(store[containers_to_dump[1]])
       /\ failed_containers = <<>>

\* C3: once the processing loop of a non-dry-run upload has started, the
\* upload raises if and only if no container is in the successful list, and
\* it raises only after the last record; with a successful container it
\* ends with a warning when some container failed and in full success when
\* none did.
C3_UploadVerdict ==
    (command = "upload" /\ idx >= 1) =>
      /\ pc = "raised" =>
           /\ successful_containers = <<>>
           /\ idx > Len(containers_to_process)
      /\ pc = "done" =>
           /\ successful_containers # <<>>
           /\ idx > Len(containers_to_process)
           /\ outcome = "warning" <=> failed_containers # <<>>
           /\ outcome = "success" <=> failed_containers = <<>>
      /\ (pc = "u_next" /\ idx > Len(containers_to_process)) =>
           outcome = ""

\* C3 witness: an upload ended with a warning, one container having failed
\* in creation and another having succeeded.
C3_Witness ==
    /\ command = "upload"
    /\ pc = "done"
    /\ outcome = "warning"
    /\ Len(successful_containers) >= 1
    /\ \E i \in DOMAIN calls :
         /\ calls[i].op = "create_container"
         /\ ~calls[i].ok
         /\ calls[i].container \in Range(failed_containers)

\* The names of the dump attempts that raised, in order.
FailedAttempts ==
    LET failed == SelectSeq(attempts, LAMBDA a : ~a.ok)
    IN  [i \in DOMAIN failed |-> failed[i].name]

\* C4: in dump an exception while one container is processed does not keep
\* the later ones from being processed: the loop is left only when every
\* selected container has been attempted, the containers that raised are
\* the failed ones, and the result check raises exactly when no record was
\* produced.  A failure to write the output file afterwards is a failure of
\* the file system, not of a container, and is the only other way the dump
\* raises once the loop has run.
C4_DumpContinues ==
    command = "dump" =>
      /\ dump_failed = FailedAttempts
      /\ pc \in {"d_results", "d_write", "d_summary", "done"} =>
           Len(attempts) = Len(containers_to_dump)
      /\ pc \in {"d_write", "d_summary", "done"} =>
           output_data.containers # <<>>
      /\ (pc = "raised" /\ attempts # <<>>) =>
           /\ Len(attempts) = Len(containers_to_dump)
           /\ \/ error = "Error writing to output file"
              \/ /\ error = "No containers were successfully processed"
                 /\ output_data.containers = <<>>
      /\ pc = "raised" /\ error = "No containers were successfully processed"
           => output_data.containers = <<>>

\* C4 witness: a dump completed although the first selected container
\* raised; the second was processed into a record.
C4_Witness ==
    /\ command = "dump"
    /\ pc = "done"
    /\ Len(attempts) >= 2
    /\ ~attempts[1].ok
    /\ attempts[2].ok
    /\ dump_failed # <<>>

\* C5: a dry-run upload issues no mutating store call.
C5_DryRunNoMutation ==
    (command = "upload" /\ dry_run) =>
      \A i \in DOMAIN calls : calls[i].op \notin MutatingOps

\* C6: the totals a dry run reports are the number of documents a real run
\* would attempt to write and the number of records it would replay.
C6_DryRunTotals ==
    (command = "upload" /\ outcome = "dry_run") =>
      /\ report.containers = Len(containers_to_process)
      /\ report.items =
           SumSeq([i \in DOMAIN containers_to_process |->
                      Len(containers_to_process[i].items)])

\* The container names an input file holds once it is read as an envelope.
EnvelopeNames(data) ==
    IF data.hasContainers
    THEN { data.containers[i].name : i \in DOMAIN data.containers }
    ELSE { data.container }

\* The file parses into one of the two shapes.
ValidShape(f) ==
    /\ f.kind = "json"
    /\ f.data.hasContainers \/ (f.data.hasContainer /\ f.data.hasItems)

\* C7: when the filter names a container absent from the envelope, upload
\* raises naming exactly the missing requested names, before the client is
\* created and before any container is processed.
C7_MissingFilterNames ==
    LET requested == Range(SplitNames(containers))
        missing   == requested \ EnvelopeNames(file.data)
    IN  ( /\ command = "upload"
          /\ pc # "u_load"
          /\ ValidShape(file)
          /\ missing # {} )
        => /\ pc = "raised"
           /\ Range(missing_containers) = missing
           /\ ~client_ready
           /\ idx = 0
           /\ calls = <<>>

Creations == {"create_container"}

\* C8: the partition-key ladder.  A rejected creation with the schema of
\* the record is followed at once by a creation with the single path `pk`;
\* a record without any schema is created with the default path `/id` only;
\* no creation follows a successful one for the same record.
C8_Ladder ==
    command = "upload" =>
      \A i \in DOMAIN calls :
        calls[i].op = "create_container" =>
          LET c   == calls[i]
              rec == containers_to_process[c.rec]
          IN  /\ (c.step = "schema" /\ ~c.ok) =>
                   IF i = Len(calls)
                   THEN pc = "u_create_simple" /\ idx = c.rec
                   ELSE /\ calls[i + 1].op = "create_container"
                        /\ calls[i + 1].rec = c.rec
                        /\ calls[i + 1].step = "simple"
                        /\ calls[i + 1].key = [kind |-> "path",
                                               paths |-> << "pk" >>]
              /\ c.step = "simple" =>
                   /\ i > 1
                   /\ calls[i - 1].step = "schema"
                   /\ calls[i - 1].rec = c.rec
                   /\ ~calls[i - 1].ok
              /\ rec.partition_key.tag = "none" =>
                   /\ c.step = "default"
                   /\ c.key = [kind |-> "path", paths |-> << "/id" >>]
                   /\ Len(CallsFor(c.rec, Creations)) = 1
              /\ c.ok => \A j \in DOMAIN calls :
                           (j > i /\ calls[j].rec = c.rec)
                             => calls[j].op # "create_container"

\* C8 witness: one upload in which a schema was rejected and `pk` tried
\* next, and in which a record without schema was created with `/id`.
C8_Witness ==
    /\ command = "upload"
    /\ \E i \in DOMAIN calls :
         /\ calls[i].step = "schema"
         /\ ~calls[i].ok
         /\ i < Len(calls)
         /\ calls[i + 1].step = "simple"
         /\ calls[i + 1].ok
    /\ \E i \in DOMAIN calls :
         /\ calls[i].step = "default"
         /\ containers_to_process[calls[i].rec].partition_key.tag = "none"

\* Every applicable creation attempt for replay record r has failed.
LadderExhausted(r) ==
    \E i \in DOMAIN calls :
      /\ calls[i].op = "create_container"
      /\ calls[i].rec = r
      /\ calls[i].step \in {"simple", "default"}
      /\ ~calls[i].ok

\* C9: a record whose creation attempts have all failed is in the failed
\* list, no item of it is ever written, and the loop goes on: it has moved
\* past the record and ends only after the last record.
C9_FailedCreationSkipsItems ==
    command = "upload" =>
      /\ \A r \in DOMAIN containers_to_process :
           LadderExhausted(r) =>
             /\ containers_to_process[r].name \in Range(failed_containers)
             /\ CallsFor(r, WriteOps) = <<>>
             /\ idx > r
             /\ pc \in {"done", "raised"} => idx > Len(containers_to_process)
             /\ pc \notin {"done", "raised"} =>
                  (idx <= Len(containers_to_process) \/ pc = "u_next")

\* C9 witness: the first record failed in creation and an item of the
\* second was written afterwards.
C9_Witness ==
    /\ command = "upload"
    /\ LadderExhausted(1)
    /\ \E i \in DOMAIN calls :
         calls[i].rec = 2 /\ calls[i].op \in WriteOps /\ calls[i].ok

\* C10: in the batch writer a failed write does not stop the batch: every
\* record that entered the batch writer and has been left had each of its
\* items written once, in input order, whatever failed.
C10_BatchContinues ==
    command = "upload" =>
      \A r \in DOMAIN containers_to_process :
        LET writes == CallsFor(r, WriteOps)
        IN  (r < idx /\ writes # <<>>) =>
              /\ Len(writes) = Len(containers_to_process[r].items)
              /\ \A k \in DOMAIN writes : writes[k].item = k

\* The input file is of the legacy shape and of no other.
LegacyInput ==
    /\ file.kind = "json"
    /\ ~file.data.hasContainers
    /\ file.data.hasContainer
    /\ file.data.hasItems

\* C11: a legacy-shape input without a `containers` list is converted to
\* exactly one record: its name is `container`, its items are the items of
\* the file unchanged and in order, its partition key is the one of the file
\* (none when the file gives none) and its total_items is len(items).
C11_LegacyConversion ==
    (command = "upload" /\ LegacyInput /\ pc # "u_load") =>
      /\ error \notin {"Input file not found", "Invalid JSON file",
                       "Invalid JSON structure"}
      /\ Len(containers_to_process) = 1
      /\ LET rec == containers_to_process[1]
         IN  /\ rec.name = file.data.container
             /\ rec.items = file.data.items
             /\ rec.partition_key = file.data.partition_key
             /\ rec.total_items = Len(file.data.items)

\* C11 witness: a legacy file with a partition key and items has been
\* converted and its record is being replayed.
C11_Witness ==
    /\ command = "upload"
    /\ LegacyInput
    /\ file.data.partition_key # NoPK
    /\ file.data.items # <<>>
    /\ Len(containers_to_process) = 1
    /\ idx = 1

\* The input file is missing, is not JSON, or is of neither shape.
RejectedInput ==
    \/ file.kind # "json"
    \/ ~file.data.hasContainers /\ ~(file.data.hasContainer /\ file.data.hasItems)

\* C12: an input that is missing, malformed, or of neither shape is
\* rejected by a fatal error before the store client is created and before
\* any store call is made; nothing is selected for replay.
C12_RejectedBeforeClient ==
    (command = "upload" /\ RejectedInput /\ pc # "u_load") =>
      /\ pc = "raised"
      /\ error = (IF file.kind = "missing" THEN "Input file not found"
                  ELSE IF file.kind = "badjson" THEN "Invalid JSON file"
                  ELSE "Invalid JSON structure")
      /\ ~client_ready
      /\ calls = <<>>
      /\ prompts = <<>>
      /\ containers_to_process = <<>>
      /\ idx = 0

\* C12 witness: a file that parses but has only the `items` key of the
\* legacy shape has been rejected.
C12_Witness ==
    /\ command = "upload"
    /\ file.kind = "json"
    /\ ~file.data.hasContainers
    /\ ~file.data.hasContainer
    /\ file.data.hasItems
    /\ pc = "raised"
    /\ error = "Invalid JSON structure"

\* C13: dump opens the envelope file for writing at most once, and only
\* when every selected container has been attempted; a dump that produced
\* no record leaves the path untouched.
C13_WrittenOnceAfterAll ==
    command = "dump" =>
      /\ file_writes <= 1
      /\ file_writes = 0 => file = MissingFile
      /\ file_writes = 1 =>
           /\ Len(attempts) = Len(containers_to_dump)
           /\ pc \in {"d_summary", "done", "raised"}
      /\ output_data.containers = <<>> => file_writes = 0
      /\ error = "No containers were successfully processed" =>
           file = MissingFile

\* C13 witness: the envelope was written, once, after two containers had
\* been attempted and one of them had failed.
C13_Witness ==
    /\ command = "dump"
    /\ file.kind = "json"
    /\ file_writes = 1
    /\ Len(attempts) >= 2
    /\ dump_failed # <<>>

\* C14: in every envelope dump writes, the total_items of each record is
\* the length of its items, and the total_items of the envelope is the sum
\* of these lengths.
C14_ItemCounts ==
    (command = "dump" /\ file.kind = "json") =>
      LET records == file.data.containers
      IN  /\ \A i \in DOMAIN records :
               records[i].total_items = Len(records[i].items)
          /\ file.data.total_items =
               SumSeq([i \in DOMAIN records |-> Len(records[i].items)])

\* C14 witness: a written envelope with an empty record and a record of
\* several documents.
C14_Witness ==
    /\ command = "dump"
    /\ file.kind = "json"
    /\ \E i \in DOMAIN file.data.containers :
         file.data.containers[i].items = <<>>
    /\ \E i \in DOMAIN file.data.containers :
         Len(file.data.containers[i].items) >= 2

\* C15: in every envelope dump writes, total_containers is the number of
\* records in `containers`, also when selected containers failed.
C15_ContainerCount ==
    (command = "dump" /\ file.kind = "json") =>
      file.data.total_containers = Len(file.data.containers)

\* The step taken marks the record being created as failed.
CreatingToFailed ==
    /\ command = "upload"
    /\ pc \in {"u_create", "u_create_simple"}
    /\ failed_containers' # failed_containers

\* The step taken is a rejected creation on the last rung of the ladder of
\* the record being created.
LastRungRejected ==
    /\ Len(calls') = Len(calls) + 1
    /\ LET c == calls'[Len(calls')]
       IN  /\ c.op = "create_container"
           /\ c.rec = idx
           /\ ~c.ok
           /\ c.step \in {"simple", "default"}

\* C16: a missing container whose creation is permitted and under way goes
\* to the failed list only by the rejection of the last applicable creation
\* attempt of the ladder: of `pk` after the schema of the record, or of
\* `/id` for a record without schema.
C16_FailedOnlyAfterLadder ==
    [][CreatingToFailed => LastRungRejected]_vars

\* The user answered no to prompt p.
Declined(p) == ~p.answer

\* The action prompt p asked about has not been performed.
DeclinedActionNotPerformed(p) ==
    \A i \in DOMAIN calls :
      /\ p.question = "create_database" => calls[i].op # "create_database"
      /\ p.question = "proceed" =>
           calls[i].op \notin WriteOps \cup {"create_container"}
      /\ p.question = "create_container" =>
           ~(calls[i].op = "create_container" /\ calls[i].rec = p.rec)

\* C17: when the user declines a prompt of upload (create the database,
\* proceed, create a container) the upload does not raise, and the declined
\* action is not performed.
C17_DeclineEndsCleanly ==
    command = "upload" =>
      \A k \in DOMAIN prompts :
        Declined(prompts[k]) =>
          /\ pc # "raised"
          /\ DeclinedActionNotPerformed(prompts[k])

\* C18: in every envelope dump writes, the names of the records are
\* pairwise distinct, whatever selection was passed.
C18_DistinctNames ==
    (command = "dump" /\ file.kind = "json") =>
      LET records == file.data.containers
      IN  \A i, j \in DOMAIN records :
            records[i].name = records[j].name => i = j

\* C19: a database is created only on an explicit creation option: every
\* database-creation call is made by a connection test run with
\* --create-database; upload, which has no such option, makes none.
C19_CreatedOnlyOnOption ==
    \A i \in DOMAIN calls :
      calls[i].op = "create_database" =>
        (command = "test" /\ create_database)

\* The parameters given neither on the command line nor in the
\* environment, in the order they are reported.
Unsupplied ==
    LET absent(p) == ~Truthy(argv[p]) /\ ~Truthy(environ[p])
        one(p)    == IF absent(p) THEN << ParamMessage(p) >> ELSE <<>>
    IN  one("endpoint") \o one("key") \o one("database")

EnteredBatchWriter(r) ==
    /\ r < idx
    /\ containers_to_process[r].items # <<>>
    /\ \/ containers_to_process[r].name \in Range(available_containers)
       \/ \E i \in DOMAIN calls :
            /\ calls[i].op = "create_container"
            /\ calls[i].rec = r
            /\ calls[i].ok

\* C21: whatever batch size was passed, the batch writer issues exactly
\* one write call per document of the record, in input order (stated for
\* the records all of whose writes the store accepted).
C21_BatchSizeIrrelevant ==
    command = "upload" =>
      \A r \in DOMAIN containers_to_process :
        LET writes == CallsFor(r, WriteOps)
        IN  ( /\ EnteredBatchWriter(r)
              /\ \A k \in DOMAIN writes : writes[k].ok )
            => /\ Len(writes) = Len(containers_to_process[r].items)
               /\ \A k \in DOMAIN writes : writes[k].item = k

\* C22: with a legacy file for container c, a filter that names a
\* container other than c is a fatal error raised when the input is read;
\* nothing is uploaded.
C22_FilterOnLegacy ==
    ( /\ command = "upload"
      /\ LegacyInput
      /\ \E i \in DOMAIN containers :
           Strip(containers[i]) # file.data.container
      /\ pc # "u_load" )
    => /\ pc = "raised"
       /\ ~client_ready
       /\ calls = <<>>
       /\ total_uploaded = 0

\* C23: a container is created only for a replay record whose name is
\* absent from the catalog listing, and only when create_containers is
\* set; a record whose container is missing while creation is not
\* permitted is marked failed without any creation or write call.
C23_CreationOnlyWhenMissing ==
    command = "upload" =>
      /\ \A i \in DOMAIN calls :
           calls[i].op = "create_container" =>
             /\ create_containers
             /\ calls[i].container = containers_to_process[calls[i].rec].name
             /\ calls[i].container \notin Range(available_containers)
      /\ \A r \in DOMAIN containers_to_process :
           ( /\ r < idx
             /\ containers_to_process[r].name \notin Range(available_containers)
             /\ ~create_containers )
           => /\ CallsFor(r, MutatingOps) = <<>>
              /\ containers_to_process[r].name \in Range(failed_containers)
              /\ containers_to_process[r].name \notin Range(successful_containers)

\* C23 witness: in one upload a listed container was written without any
\* creation, and a missing one was created.
C23_Witness ==
    /\ command = "upload"
    /\ create_containers
    /\ \E r \in DOMAIN containers_to_process :
         /\ containers_to_process[r].name \in Range(available_containers)
         /\ CallsFor(r, WriteOps) # <<>>
         /\ CallsFor(r, Creations) = <<>>
    /\ \E r \in DOMAIN containers_to_process :
         /\ containers_to_process[r].name \notin Range(available_containers)
         /\ CallsFor(r, Creations) # <<>>

\* The prompts already answered hold an affirmative answer to the question
\* asked before call c: whether to proceed, and for a creation also
\* whether to create the container of that record.
AffirmedBefore(c) ==
    /\ \E k \in DOMAIN prompts :
         prompts[k].question = "proceed" /\ prompts[k].answer
    /\ c.op = "create_container" =>
         \E k \in DOMAIN prompts :
           /\ prompts[k].question = "create_container"
           /\ prompts[k].rec = c.rec
           /\ prompts[k].answer

\* A step that issues a container creation or an item write without force.
UnforcedMutation ==
    /\ command = "upload"
    /\ ~force
    /\ Len(calls') = Len(calls) + 1
    /\ calls'[Len(calls')].op \in WriteOps \cup {"create_container"}

\* C24: without force, every container creation and every item write is
\* preceded by an affirmative answer to the corresponding prompt; with
\* force, no prompt is ever issued.
C24_PromptsGuardMutation ==
    /\ [](command = "upload" /\ force => prompts = <<>>)
    /\ [][UnforcedMutation => AffirmedBefore(calls'[Len(calls')])]_vars

\* C24 witness: without force a container was created and an item written,
\* both after affirmative answers.
C24_Witness ==
    /\ command = "upload"
    /\ ~force
    /\ \E i, j \in DOMAIN calls :
         /\ calls[i].op = "create_container"
         /\ calls[j].op \in WriteOps
         /\ AffirmedBefore(calls[i])
         /\ AffirmedBefore(calls[j])

\* The store's database-delete calls issued so far.
DeleteCalls == SelectSeq(calls, LAMBDA c : c.op = "delete_database")

\* The confirmations answered so far are all affirmative: the first one
\* and, for a database holding containers, the second one right after it.
ConfirmedDeletion ==
    /\ Len(prompts) >= 1
    /\ prompts[1] = Prompt("delete_database", 0, TRUE)
    /\ db_info.container_count > 0 =>
         /\ Len(prompts) = 2
         /\ prompts[2] = Prompt("delete_all_data", 0, TRUE)

\* C25: DatabaseDeleter.delete_database without force issues the delete
\* call only after an affirmative confirmation, and after two successive
\* affirmative confirmations for a database holding containers; a declined
\* confirmation and a database that does not exist make it return False
\* without any delete call.
C25_DeleteNeedsConfirmation ==
    ( /\ command = "delete-db"
      /\ entry_point = DeleterMethod
      /\ ~force )
    => /\ DeleteCalls # <<>> => ConfirmedDeletion
       /\ (\E k \in DOMAIN prompts : ~prompts[k].answer)
            => /\ DeleteCalls = <<>>
               /\ pc = "done"
               /\ returned = "False"
       /\ (pc = "done" /\ ~db_info.found)
            => /\ DeleteCalls = <<>>
               /\ prompts = <<>>
               /\ returned = "False"

\* C25 witness: without force, a database holding containers was deleted
\* after both confirmations.
C25_Witness ==
    /\ command = "delete-db"
    /\ entry_point = DeleterMethod
    /\ ~force
    /\ db_info.container_count > 0
    /\ Len(prompts) = 2
    /\ DeleteCalls # <<>>
    /\ returned = "True"
    /\ database_name \notin DOMAIN account

SchemaKeyMatches(c) ==
    LET paths == containers_to_process[c.rec].partition_key.paths
    IN  c.key = IF Len(paths) = 1
                THEN [kind |-> "path", paths |-> << paths[1] >>]
                ELSE [kind |-> "paths", paths |-> paths]

\* C26: the exact-schema creation attempt is made only for a record whose
\* schema has a non-empty paths, with the simple key on a single path and
\* the composite key over several paths in the given order.
C26_SchemaAttemptNeedsPaths ==
    command = "upload" =>
      \A i \in DOMAIN calls :
        (calls[i].op = "create_container" /\ calls[i].step = "schema")
        => /\ containers_to_process[calls[i].rec].partition_key.paths # <<>>
           /\ SchemaKeyMatches(calls[i])

\* The item writes the store accepted, over all containers.
AcceptedWrites == SelectSeq(calls, LAMBDA c : c.op \in WriteOps /\ c.ok)

\* C27: at the end of an upload that is not a dry run, total_uploaded is
\* the number of item writes the store accepted across all containers,
\* whatever the outcome of each container.
C27_TotalIsAcceptedWrites ==
    (UploadFinished /\ ~dry_run) => total_uploaded = Len(AcceptedWrites)

\* The names of the dump attempts that produced a record, in order.
SucceededAttempts ==
    LET succeeded == SelectSeq(attempts, LAMBDA a : a.ok)
    IN  [i \in DOMAIN succeeded |-> succeeded[i].name]

\* The names of the records of the envelope being assembled, in order.
RecordNames ==
    [i \in DOMAIN output_data.containers |-> output_data.containers[i].name]

\* The dump left its processing loop.
DumpLoopLeft ==
    /\ command = "dump"
    /\ pc \in {"d_results", "d_write", "d_summary", "done"}

\* C28: after the loop of dump the record names are the selected containers
\* that did not fail, in selection order; every selected container has
\* either exactly one record or an entry among the failed ones, never both;
\* a container without documents has a record with items [] and
\* total_items 0.
C28_RecordsAreSelection ==
    DumpLoopLeft =>
      /\ RecordNames = SucceededAttempts
      /\ \A k \in DOMAIN containers_to_dump :
           LET c == containers_to_dump[k]
               n == Cardinality({i \in DOMAIN RecordNames : RecordNames[i] = c})
           IN  IF c \in Range(dump_failed) THEN n = 0 ELSE n = 1
      /\ \A i \in DOMAIN output_data.containers :
           LET r == output_data.containers[i]
           IN  store[r.name] = <<>> => (r.items = <<>> /\ r.total_items = 0)

\* C29: after the upload loop every record of the replay set is counted
\* once, as successful or as failed: the two lists together are as long as
\* the replay set, and while the loop runs as long as the records done.
C29_EveryRecordCounted ==
    command = "upload" =>
      /\ idx >= 1 =>
           Len(successful_containers) + Len(failed_containers) = idx - 1
      /\ UploadFinished =>
           Len(successful_containers) + Len(failed_containers)
             = Len(containers_to_process)

\* C29 witness: an upload of two records ended with one successful and one
\* failed container, the successful one without any accepted write.
C29_Witness ==
    /\ UploadFinished
    /\ Len(containers_to_process) = 2
    /\ Len(successful_containers) = 1
    /\ Len(failed_containers) = 1
    /\ total_uploaded = 0

====
